---- MODULE Spec2Model ----
(***************************************************************************)
(* A model of the PostgreSQL helper class Database of src/postgre.py.      *)
(*                                                                         *)
(* The helper builds parameterised SQL statements from call arguments and  *)
(* hands them to cursor.execute.  The model keeps the two halves apart:    *)
(*   - the statement builders and the Python control flow of each method   *)
(*     (InsertValues, SelectStmt, UpdateStmt, ..., one action per method); *)
(*   - the engine that interprets a statement and its positional           *)
(*     parameters against one table (Execute).                             *)
(* A mapping (dict) is a sequence of <<key, value>> pairs with distinct    *)
(* keys: Python dicts iterate in insertion order, and the code depends on  *)
(* that order.                                                             *)
(*                                                                         *)
(* Spec     : one connected helper, calls made one after the other.        *)
(* CtorSpec : concurrent constructions (__init__ / _ensure_database) for   *)
(*            one database name, one step per statement.                   *)
(***************************************************************************)
EXTENDS Integers, Sequences, FiniteSets, TLC

\* ------------------------------------------------------------------ bounds
\* Most rows one insert() call carries.
MaxRows == 2
\* Most rows the table holds (insert is not offered beyond it).
MaxTable == 2
\* Concurrent constructions of CtorSpec.
NumProcs == 3

\* ------------------------------------------------------------------ values
\* SQL NULL: the value of a column an INSERT does not name.
NULL == "NULL"
\* The scalar values callers pass.
Val == {"v1", "v2"}
\* The column names callers use.
ColNames == {"a", "b"}

NoError == "none"
\* Exceptions the Python code itself raises before any statement is sent.
PythonErrors == {"ValueError", "TypeError", "IndexError", "KeyError"}
\* Errors the engine raises for a statement (psycopg2 re-raises them).
EngineErrors == {"SyntaxError", "UndefinedTable", "UndefinedColumn",
                 "NotNullViolation", "UniqueViolation", "DuplicateTable"}

\* ------------------------------------------------------------------ mappings
Range(s) == {s[i] : i \in DOMAIN s}

\* d.keys() and d.values(), in iteration order.
Keys(d) == [i \in 1..Len(d) |-> d[i][1]]
Values(d) == [i \in 1..Len(d) |-> d[i][2]]
KeySet(d) == {d[i][1] : i \in 1..Len(d)}
\* d[k], for k a key of d.
DictGet(d, k) == d[CHOOSE i \in 1..Len(d) : d[i][1] = k][2]

\* The position of column c in the column list cs.
IndexOf(cs, c) == CHOOSE i \in 1..Len(cs) : cs[i] = c

\* Orders of distinct column names, the empty one first.
KeySeqs == {<<>>, <<"a">>, <<"b">>, <<"a", "b">>, <<"b", "a">>}
\* Every mapping from column names to values.
Dicts ==
    UNION {{[i \in 1..Len(ks) |-> <<ks[i], vs[i]>>] : vs \in [1..Len(ks) -> Val]}
           : ks \in KeySeqs}

\* One element of the sequence given to insert(): a mapping, or a tuple.
DictItem(d) == [isDict |-> TRUE, kv |-> d]
TupleItem == [isDict |-> FALSE, kv |-> <<>>]
Items == {DictItem(d) : d \in Dicts} \cup {TupleItem}

\* The shapes of insert()'s data argument, with at most n rows: one mapping,
\* a sequence (empty, of mappings, of tuples, mixed), a scalar.
InsertInputs(n) ==
    {[kind |-> "dict", items |-> <<DictItem(d)>>] : d \in IF n >= 1 THEN Dicts ELSE {}}
    \cup {[kind |-> "list", items |-> s] :
            s \in UNION {[1..m -> Items] : m \in 0..n}}
    \cup {[kind |-> "scalar", items |-> <<>>]}

Min(x, y) == IF x <= y THEN x ELSE y

\* ------------------------------------------------------------------ tables
\* create_table's column lists: (column_name, column_type) pairs.
TableSpecs ==
    { << <<"a", "INTEGER PRIMARY KEY">>, <<"b", "INTEGER">> >>,
      << <<"a", "INTEGER">>, <<"b", "INTEGER">> >>,
      << <<"a", "INTEGER">> >> }

ColsOf(sch) == {sch[i][1] : i \in 1..Len(sch)}
PkCols(sch) == {sch[i][1] : i \in {j \in 1..Len(sch) : sch[j][2] = "INTEGER PRIMARY KEY"}}

NoTable == [exists |-> FALSE, schema |-> <<>>, rows |-> <<>>]

\* ------------------------------------------------------------------ statements
\* A statement as the engine sees it: the verb, the column list (INSERT's
\* columns, SELECT's projection, UPDATE's SET columns), whether a WHERE
\* keyword is present, the columns of its equalities and what joins them,
\* the IF [NOT] EXISTS guard and CREATE TABLE's column definitions.
Stmt(verb, cs, hasWhere, whereCols, conj, guarded, coldefs) ==
    [verb |-> verb, cols |-> cs, hasWhere |-> hasWhere, whereCols |-> whereCols,
     conj |-> conj, guarded |-> guarded, coldefs |-> coldefs]

\* ------------------------------------------------------------------ engine
\* SQL equality: never true of NULL.
SqlEq(x, y) == x # NULL /\ y # NULL /\ x = y

\* Whether a row satisfies the statement's WHERE clause under the bound values.
RowMatches(row, st, wparams) ==
    IF ~st.hasWhere THEN TRUE
    ELSE IF st.conj = "AND"
         THEN \A i \in 1..Len(st.whereCols) : SqlEq(row[st.whereCols[i]], wparams[i])
         ELSE \E i \in 1..Len(st.whereCols) : SqlEq(row[st.whereCols[i]], wparams[i])

\* No two rows agree on a primary-key column.
UniqueOk(sch, rs) ==
    \A c \in PkCols(sch) : \A i, j \in 1..Len(rs) : i # j => rs[i][c] # rs[j][c]

NotNullOk(sch, r) == \A c \in PkCols(sch) : r[c] # NULL

\* The parser: an empty column list or an empty condition after WHERE is
\* no statement of the grammar.
SyntaxOk(st) ==
    /\ st.verb \in {"INSERT", "UPDATE"} => st.cols # <<>>
    /\ st.hasWhere => st.whereCols # <<>>

Reply(db, e, fetched) == [db |-> db, err |-> e, fetched |-> fetched]

\* cursor.execute(st, params) on an autocommit connection: the statement
\* takes effect as a whole or raises and changes nothing.
Execute(db, st, params) ==
    IF st.verb = "CREATE TABLE"
    THEN IF db.exists
         THEN IF st.guarded THEN Reply(db, NoError, <<>>)
              ELSE Reply(db, "DuplicateTable", <<>>)
         ELSE Reply([exists |-> TRUE, schema |-> st.coldefs, rows |-> <<>>], NoError, <<>>)
    ELSE IF st.verb = "DROP TABLE"
    THEN IF db.exists \/ st.guarded THEN Reply(NoTable, NoError, <<>>)
         ELSE Reply(db, "UndefinedTable", <<>>)
    ELSE IF ~SyntaxOk(st) THEN Reply(db, "SyntaxError", <<>>)
    ELSE IF ~db.exists THEN Reply(db, "UndefinedTable", <<>>)
    ELSE IF ~(Range(st.cols) \cup Range(st.whereCols) \subseteq ColsOf(db.schema))
    THEN Reply(db, "UndefinedColumn", <<>>)
    ELSE IF st.verb = "INSERT"
    THEN LET new == [c \in ColsOf(db.schema) |->
                        IF c \in Range(st.cols) THEN params[IndexOf(st.cols, c)] ELSE NULL]
         IN  IF ~NotNullOk(db.schema, new) THEN Reply(db, "NotNullViolation", <<>>)
             ELSE IF ~UniqueOk(db.schema, Append(db.rows, new))
             THEN Reply(db, "UniqueViolation", <<>>)
             ELSE Reply([db EXCEPT !.rows = Append(db.rows, new)], NoError, <<>>)
    ELSE IF st.verb = "SELECT"
    THEN LET hit == SelectSeq(db.rows, LAMBDA r : RowMatches(r, st, params))
         IN  Reply(db, NoError,
                   [i \in 1..Len(hit) |-> [j \in 1..Len(st.cols) |-> hit[i][st.cols[j]]]])
    ELSE IF st.verb = "UPDATE"
    THEN LET n == Len(st.cols)
             sparams == SubSeq(params, 1, n)
             wparams == SubSeq(params, n + 1, Len(params))
             set(r) == [c \in ColsOf(db.schema) |->
                          IF c \in Range(st.cols) THEN sparams[IndexOf(st.cols, c)] ELSE r[c]]
             new == [i \in 1..Len(db.rows) |->
                       IF RowMatches(db.rows[i], st, wparams) THEN set(db.rows[i])
                       ELSE db.rows[i]]
         IN  IF ~UniqueOk(db.schema, new) THEN Reply(db, "UniqueViolation", <<>>)
             ELSE Reply([db EXCEPT !.rows = new], NoError, <<>>)
    ELSE \* DELETE
         Reply([db EXCEPT !.rows = SelectSeq(db.rows, LAMBDA r : ~RowMatches(r, st, params))],
               NoError, <<>>)

\* ------------------------------------------------------------------ state
VARIABLES
    table,      \* the table in the target database: [exists, schema, rows]
    old,        \* the table as it was when the last call began
    op,         \* the method last called
    args,       \* its arguments: [data, where, columns]
    err,        \* the exception it raised, or NoError
    executed,   \* the cursor.execute calls it made, in order: [stmt, params]
    result,     \* what it returned (select's fetchall)
    msg,        \* what create_table printed
    inserted,   \* the rows insert() stored since the last update, delete or drop
    dbExists,   \* the server's catalog lists the target database
    nCreated,   \* CREATE DATABASE statements that succeeded
    pc,         \* each construction's position in __init__/_ensure_database
    exists,     \* each construction's local `exists` (the catalog row fetched)
    tmp_conn,   \* each construction's administrative connection is open
    conn,       \* each construction's self.conn is open
    raised      \* the exception each construction raised, or NoError

opVars == <<table, old, op, args, err, executed, result, msg, inserted>>
ctorVars == <<dbExists, nCreated, pc, exists, tmp_conn, conn, raised>>
vars == <<table, old, op, args, err, executed, result, msg, inserted,
          dbExists, nCreated, pc, exists, tmp_conn, conn, raised>>

Procs == 1..NumProcs

Args(data, where, columns) == [data |-> data, where |-> where, columns |-> columns]
Call(stmt, params) == [stmt |-> stmt, params |-> params]

\* ------------------------------------------------------------------ create_table
\* Seeded fault: the statement loses its IF NOT EXISTS guard.
CreateTableStmtUnguarded(columns) ==
    Stmt("CREATE TABLE", <<>>, FALSE, <<>>, "AND", FALSE, columns)

\* "CREATE TABLE IF NOT EXISTS <table_name> (<cols>)".
CreateTableStmt(columns) == Stmt("CREATE TABLE", <<>>, FALSE, <<>>, "AND", TRUE, columns)

\* The two information_schema queries: does the table exist, how many columns.
CatalogExistsStmt == Stmt("SELECT EXISTS information_schema.tables", <<>>, FALSE, <<>>, "AND", FALSE, <<>>)
CatalogCountStmt == Stmt("SELECT COUNT information_schema.columns", <<>>, FALSE, <<>>, "AND", FALSE, <<>>)
CatalogTableExists(db) == db.exists
CatalogColumnCount(db) == Len(db.schema)

\* The outcome create_table prints, from the column-count heuristic.
CreateTableMessage(found, col_count, columns) ==
    IF found
    THEN IF col_count = Len(columns) THEN "did not exist. Created new table."
         ELSE "already exists."
    ELSE "was not created due to an unknown error."

create_table(columns) ==
    LET st == CreateTableStmt(columns)
        r == Execute(table, st, <<>>)
    IN  /\ op = "none"
        /\ old' = table
        /\ op' = "create_table"
        /\ args' = Args(<<>>, <<>>, columns)
        /\ table' = r.db
        /\ err' = r.err
        /\ result' = <<>>
        /\ IF r.err # NoError
           THEN /\ executed' = <<Call(st, <<>>)>>
                /\ msg' = ""
           ELSE /\ executed' = <<Call(st, <<>>), Call(CatalogExistsStmt, <<"test_table">>)>>
                                \o (IF CatalogTableExists(r.db)
                                    THEN <<Call(CatalogCountStmt, <<"test_table">>)>> ELSE <<>>)
                /\ msg' = CreateTableMessage(CatalogTableExists(r.db),
                                             CatalogColumnCount(r.db), columns)
        /\ UNCHANGED inserted
        /\ UNCHANGED ctorVars

\* ------------------------------------------------------------------ insert
\* columns = data[0].keys()
InsertColumns(rows) == Keys(rows[1].kv)

\* What evaluating [row[col] for col in columns] raises for one row.
RowLookupError(row, columns) ==
    IF columns = <<>> THEN NoError
    ELSE IF ~row.isDict THEN "TypeError"
    ELSE IF ~(Range(columns) \subseteq KeySet(row.kv)) THEN "KeyError"
    ELSE NoError

\* Seeded fault: each row's values in the row's own key order,
\* values = [list(row.values()) for row in data].
InsertValuesOwnOrder(rows, columns) ==
    [i \in 1..Len(rows) |-> Values(rows[i].kv)]

\* values = [[row[col] for col in columns] for row in data]
InsertValues(rows, columns) ==
    [i \in 1..Len(rows) |-> [j \in 1..Len(columns) |-> DictGet(rows[i].kv, columns[j])]]

\* The checks and conversions before the first statement: the exception
\* raised, or the columns and the value lists to bind.
InsertPrepare(data) ==
    LET rows == data.items
        none == [err |-> NoError, columns |-> <<>>, values |-> <<>>]
    IN  IF data.kind = "scalar" THEN [none EXCEPT !.err = "TypeError"]
        ELSE IF rows = <<>> THEN [none EXCEPT !.err = "IndexError"]
        ELSE IF ~rows[1].isDict THEN [none EXCEPT !.err = "ValueError"]
        ELSE LET columns == InsertColumns(rows)
                 bad == {i \in 1..Len(rows) : RowLookupError(rows[i], columns) # NoError}
             IN  IF bad # {}
                 THEN [none EXCEPT !.err =
                         RowLookupError(rows[CHOOSE i \in bad : \A j \in bad : i <= j], columns)]
                 ELSE [err |-> NoError, columns |-> columns,
                       values |-> InsertValues(rows, columns)]

\* "INSERT INTO <table_name> (<columns>) VALUES (%s, ...)".
InsertStmt(columns) == Stmt("INSERT", columns, FALSE, <<>>, "AND", FALSE, <<>>)

\* Seeded fault: the loop runs in one transaction that a failing row rolls back.
RECURSIVE InsertLoopAtomic(_, _, _, _)
InsertLoopAtomic(db, st, values, k) ==
    IF k > Len(values) THEN [db |-> db, err |-> NoError, executed |-> <<>>]
    ELSE LET r == Execute(db, st, values[k])
         IN  IF r.err # NoError
             THEN [db |-> db, err |-> r.err, executed |-> <<Call(st, values[k])>>]
             ELSE LET rest == InsertLoopAtomic(r.db, st, values, k + 1)
                  IN  [db |-> IF rest.err # NoError THEN db ELSE rest.db,
                       err |-> rest.err,
                       executed |-> <<Call(st, values[k])>> \o rest.executed]

\* for row in values: cur.execute(insert_sql, row) -- each statement commits
\* on its own; the first one that raises ends the loop.
RECURSIVE InsertLoop(_, _, _, _)
InsertLoop(db, st, values, k) ==
    IF k > Len(values) THEN [db |-> db, err |-> NoError, executed |-> <<>>]
    ELSE LET r == Execute(db, st, values[k])
         IN  IF r.err # NoError
             THEN [db |-> db, err |-> r.err, executed |-> <<Call(st, values[k])>>]
             ELSE LET rest == InsertLoop(r.db, st, values, k + 1)
                  IN  [rest EXCEPT !.executed = <<Call(st, values[k])>> \o @]

\* The rows of a call that the table took: every executed row but a failing
\* last one, each as the mapping the caller gave, and whether the rows of the
\* call all carried the keys of the first.
Stored(rows, run) ==
    LET nOk == IF run.err = NoError THEN Len(run.executed) ELSE Len(run.executed) - 1
        same == \A i \in 1..Len(rows) :
                    rows[i].isDict /\ KeySet(rows[i].kv) = KeySet(rows[1].kv)
    IN  [i \in 1..nOk |->
            [row |-> [k \in KeySet(rows[i].kv) |-> DictGet(rows[i].kv, k)],
             sameKeys |-> same]]

insert(data) ==
    LET p == InsertPrepare(data)
        run == InsertLoop(table, InsertStmt(p.columns), p.values, 1)
    IN  /\ op = "none"
        /\ Len(table.rows) + Len(data.items) <= MaxTable
        /\ old' = table
        /\ op' = "insert"
        /\ args' = Args(data, <<>>, <<>>)
        /\ result' = <<>>
        /\ msg' = ""
        /\ IF p.err # NoError
           THEN /\ err' = p.err
                /\ executed' = <<>>
                /\ table' = table
                /\ UNCHANGED inserted
           ELSE /\ err' = run.err
                /\ executed' = run.executed
                /\ table' = run.db
                /\ inserted' = inserted \o Stored(data.items, run)
        /\ UNCHANGED ctorVars

\* ------------------------------------------------------------------ select
\* Seeded fault: "SELECT *", the table's own column order whatever was asked.
SelectStmtStar(columns, where) ==
    Stmt("SELECT", [i \in 1..Len(table.schema) |-> table.schema[i][1]],
         where # <<>>, Keys(where), "AND", FALSE, <<>>)

\* "SELECT <columns> FROM <table_name>", and " WHERE k=%s AND ..." if where.
SelectStmt(columns, where) ==
    Stmt("SELECT", columns, where # <<>>, Keys(where), "AND", FALSE, <<>>)

\* params = list(where.values()) if where, else [].
SelectParams(where) == IF where # <<>> THEN Values(where) ELSE <<>>

select(columns, where) ==
    LET st == SelectStmt(columns, where)
        params == SelectParams(where)
        r == Execute(table, st, params)
    IN  /\ op = "none"
        /\ old' = table
        /\ op' = "select"
        /\ args' = Args(<<>>, where, columns)
        /\ table' = r.db
        /\ err' = r.err
        /\ executed' = <<Call(st, params)>>
        /\ result' = r.fetched
        /\ msg' = ""
        /\ UNCHANGED inserted
        /\ UNCHANGED ctorVars

\* ------------------------------------------------------------------ update
\* Seeded fault: the WHERE clause is appended only "if where", as select does.
UpdateStmtOptionalWhere(data, where) ==
    Stmt("UPDATE", Keys(data), where # <<>>, Keys(where), "AND", FALSE, <<>>)

\* "UPDATE <table_name> SET k=%s, ... WHERE k=%s AND ...": the WHERE keyword
\* is written whatever the condition holds.
UpdateStmt(data, where) ==
    Stmt("UPDATE", Keys(data), TRUE, Keys(where), "AND", FALSE, <<>>)

\* Seeded fault: params = list(where.values()) + list(data.values()).
UpdateParamsWhereFirst(data, where) == Values(where) \o Values(data)

\* params = list(data.values()) + list(where.values())
UpdateParams(data, where) == Values(data) \o Values(where)

update(data, where) ==
    LET st == UpdateStmt(data, where)
        params == UpdateParams(data, where)
        r == Execute(table, st, params)
    IN  /\ op = "none"
        /\ old' = table
        /\ op' = "update"
        /\ args' = Args(data, where, <<>>)
        /\ table' = r.db
        /\ err' = r.err
        /\ executed' = <<Call(st, params)>>
        /\ result' = <<>>
        /\ msg' = ""
        /\ inserted' = <<>>
        /\ UNCHANGED ctorVars

\* ------------------------------------------------------------------ delete
\* Seeded fault: the equalities joined by ' OR '.
DeleteStmtOr(where) == Stmt("DELETE", <<>>, TRUE, Keys(where), "OR", FALSE, <<>>)

\* "DELETE FROM <table_name> WHERE k=%s AND ...".
DeleteStmt(where) == Stmt("DELETE", <<>>, TRUE, Keys(where), "AND", FALSE, <<>>)

delete(where) ==
    LET st == DeleteStmt(where)
        params == Values(where)
        r == Execute(table, st, params)
    IN  /\ op = "none"
        /\ old' = table
        /\ op' = "delete"
        /\ args' = Args(<<>>, where, <<>>)
        /\ table' = r.db
        /\ err' = r.err
        /\ executed' = <<Call(st, params)>>
        /\ result' = <<>>
        /\ msg' = ""
        /\ inserted' = <<>>
        /\ UNCHANGED ctorVars

\* ------------------------------------------------------------------ drop_table
\* "DROP TABLE IF EXISTS <table_name>".
DropTableStmt == Stmt("DROP TABLE", <<>>, FALSE, <<>>, "AND", TRUE, <<>>)

drop_table ==
    LET r == Execute(table, DropTableStmt, <<>>)
    IN  /\ op = "none"
        /\ old' = table
        /\ op' = "drop_table"
        /\ args' = Args(<<>>, <<>>, <<>>)
        /\ table' = r.db
        /\ err' = r.err
        /\ executed' = <<Call(DropTableStmt, <<>>)>>
        /\ result' = <<>>
        /\ msg' = ""
        /\ inserted' = <<>>
        /\ UNCHANGED ctorVars

\* ------------------------------------------------------------------ caller
\* The call returns: the caller has its result or its exception, and the
\* helper is idle until the next call.
return ==
    /\ op # "none"
    /\ op' = "none"
    /\ old' = table
    /\ args' = Args(<<>>, <<>>, <<>>)
    /\ err' = NoError
    /\ executed' = <<>>
    /\ result' = <<>>
    /\ msg' = ""
    /\ UNCHANGED <<table, inserted>>
    /\ UNCHANGED ctorVars

\* ------------------------------------------------------------------ construction
\* _ensure_database and __init__, one step per statement that talks to the
\* server.  Each construction p has its own administrative connection, its
\* own local `exists` and its own self.conn; the server's catalog is shared.

\* tmp_conn = psycopg2.connect(dbname='postgres', ...); autocommit; cursor.
connect_admin(p) ==
    /\ pc[p] = "init"
    /\ tmp_conn' = [tmp_conn EXCEPT ![p] = TRUE]
    /\ pc' = [pc EXCEPT ![p] = "select"]
    /\ UNCHANGED <<dbExists, nCreated, exists, conn, raised>>
    /\ UNCHANGED opVars

\* cur.execute("SELECT 1 FROM pg_database WHERE datname = %s"); fetchone().
select_catalog(p) ==
    /\ pc[p] = "select"
    /\ exists' = [exists EXCEPT ![p] = dbExists]
    /\ pc' = [pc EXCEPT ![p] = "branch"]
    /\ UNCHANGED <<dbExists, nCreated, tmp_conn, conn, raised>>
    /\ UNCHANGED opVars

\* Seeded fault: the test inverted, "if exists:".
ShouldCreateInverted(found) == found

\* if not exists: create, else report that the database is there.
ShouldCreate(found) == ~found

branch(p) ==
    /\ pc[p] = "branch"
    /\ pc' = [pc EXCEPT ![p] = IF ShouldCreate(exists[p]) THEN "create" ELSE "close"]
    /\ UNCHANGED <<dbExists, nCreated, exists, tmp_conn, conn, raised>>
    /\ UNCHANGED opVars

\* cur.execute("CREATE DATABASE <dbname>"): the server creates the database
\* or raises "duplicate database"; the exception leaves _ensure_database and
\* __init__ at once, before tmp_conn.close() and before self.conn is set.
create_database(p) ==
    /\ pc[p] = "create"
    /\ IF dbExists
       THEN /\ raised' = [raised EXCEPT ![p] = "DuplicateDatabase"]
            /\ pc' = [pc EXCEPT ![p] = "aborted"]
            /\ UNCHANGED <<dbExists, nCreated>>
       ELSE /\ dbExists' = TRUE
            /\ nCreated' = nCreated + 1
            /\ pc' = [pc EXCEPT ![p] = "close"]
            /\ UNCHANGED raised
    /\ UNCHANGED <<exists, tmp_conn, conn>>
    /\ UNCHANGED opVars

\* cur.close(); tmp_conn.close()
close_admin(p) ==
    /\ pc[p] = "close"
    /\ tmp_conn' = [tmp_conn EXCEPT ![p] = FALSE]
    /\ pc' = [pc EXCEPT ![p] = "connect"]
    /\ UNCHANGED <<dbExists, nCreated, exists, conn, raised>>
    /\ UNCHANGED opVars

\* self.conn = psycopg2.connect(dbname=self.dbname, ...); autocommit = True.
\* Connecting to a database the catalog does not list raises.
connect_target(p) ==
    /\ pc[p] = "connect"
    /\ IF dbExists
       THEN /\ conn' = [conn EXCEPT ![p] = TRUE]
            /\ pc' = [pc EXCEPT ![p] = "done"]
            /\ UNCHANGED raised
       ELSE /\ raised' = [raised EXCEPT ![p] = "OperationalError"]
            /\ pc' = [pc EXCEPT ![p] = "aborted"]
            /\ UNCHANGED conn
    /\ UNCHANGED <<dbExists, nCreated, exists, tmp_conn>>
    /\ UNCHANGED opVars

\* ------------------------------------------------------------------ specifications
InitOps ==
    /\ table = NoTable
    /\ old = NoTable
    /\ op = "none"
    /\ args = Args(<<>>, <<>>, <<>>)
    /\ err = NoError
    /\ executed = <<>>
    /\ result = <<>>
    /\ msg = ""
    /\ inserted = <<>>

\* No construction has begun and the target database is absent.
InitCtor ==
    /\ dbExists = FALSE
    /\ nCreated = 0
    /\ pc = [p \in Procs |-> "init"]
    /\ exists = [p \in Procs |-> FALSE]
    /\ tmp_conn = [p \in Procs |-> FALSE]
    /\ conn = [p \in Procs |-> FALSE]
    /\ raised = [p \in Procs |-> NoError]

\* Every construction has completed: the helpers are connected.
Constructed ==
    /\ dbExists = TRUE
    /\ nCreated = 1
    /\ pc = [p \in Procs |-> "done"]
    /\ exists = [p \in Procs |-> p # 1]
    /\ tmp_conn = [p \in Procs |-> FALSE]
    /\ conn = [p \in Procs |-> TRUE]
    /\ raised = [p \in Procs |-> NoError]

Init == InitOps /\ Constructed

CtorInit == InitOps /\ InitCtor

CtorNext ==
    \E p \in Procs :
        \/ connect_admin(p)
        \/ select_catalog(p)
        \/ branch(p)
        \/ create_database(p)
        \/ close_admin(p)
        \/ connect_target(p)

CtorSpec == CtorInit /\ [][CtorNext]_vars

\* A caller passes arguments only to an idle helper (calls are sequential).
Idle(S) == IF op = "none" THEN S ELSE {}

Next ==
    \/ \E columns \in Idle(TableSpecs) : create_table(columns)
    \/ \E data \in Idle(InsertInputs(Min(MaxRows, MaxTable - Len(table.rows)))) : insert(data)
    \/ \E columns \in Idle(KeySeqs \ {<<>>}), where \in Dicts : select(columns, where)
    \/ \E data \in Idle(Dicts), where \in Dicts : update(data, where)
    \/ \E where \in Idle(Dicts) : delete(where)
    \/ drop_table
    \/ return

Spec == Init /\ [][Next]_vars

\* ================================================================== claims
\* Vocabulary of the claims, stated on the caller's arguments alone.

\* data is one mapping or a non-empty sequence of mappings.
IsRowsOfMappings(data) ==
    /\ data.kind \in {"dict", "list"}
    /\ data.items # <<>>
    /\ \A i \in 1..Len(data.items) : data.items[i].isDict

\* Every row carries exactly the keys of the first row.
HasIdenticalKeys(data) ==
    \A i \in 1..Len(data.items) : KeySet(data.items[i].kv) = KeySet(data.items[1].kv)

\* Row i's values listed in the key order of the first row.
ValuesInFirstRowOrder(data, i) ==
    LET first == data.items[1].kv
    IN  [j \in 1..Len(first) |-> DictGet(data.items[i].kv, first[j][1])]

\* The row satisfies every equality of the condition mapping.
Satisfies(row, where) == \A i \in 1..Len(where) : row[where[i][1]] = where[i][2]

\* The row with each column of data set to data's value, the others kept.
Assigned(row, data) ==
    [c \in DOMAIN row |-> IF c \in KeySet(data) THEN DictGet(data, c) ELSE row[c]]

C2_InvalidShapeIssuesNoSql ==
    (op = "insert" /\ ~IsRowsOfMappings(args.data) /\ old.exists)
    => /\ err \in PythonErrors
       /\ executed = <<>>
       /\ table = old

\* ------------------------------------------------------------------ C3
\* C3: a bulk insert of mappings that do not all share the key set of the
\* first row (here: into an existing table that has the first row's columns)
\* is rejected before any statement is executed (KeyError counted as a
\* rejection): nothing is executed, no row of the call is in the table.
C3_InconsistentKeysRejected ==
    (/\ op = "insert"
     /\ IsRowsOfMappings(args.data)
     /\ ~HasIdenticalKeys(args.data)
     /\ old.exists
     /\ KeySet(args.data.items[1].kv) # {}
     /\ KeySet(args.data.items[1].kv) \subseteq ColsOf(old.schema))
    => /\ err \in PythonErrors
       /\ executed = <<>>
       /\ table = old

\* ------------------------------------------------------------------ C4
\* C4: round trip.  After rows have been stored by insert() calls whose rows
\* all carry the same columns, select() projecting those columns in any
\* order, with no condition, returns a collection that contains each stored
\* row's values in the order of the select call's column list.
C4_InsertSelectRoundTrip ==
    (op = "select" /\ args.where = <<>> /\ err = NoError)
    => \A i \in 1..Len(inserted) :
          (inserted[i].sameKeys /\ DOMAIN inserted[i].row = Range(args.columns))
          => [j \in 1..Len(args.columns) |-> inserted[i].row[args.columns[j]]]
                \in Range(result)

\* A two-column row stored by insert() is selected with the columns in the
\* order b, a, and its two values differ.
C4_Witness ==
    /\ op = "select"
    /\ args.where = <<>>
    /\ err = NoError
    /\ args.columns = <<"b", "a">>
    /\ \E i \in 1..Len(inserted) :
          /\ inserted[i].sameKeys
          /\ DOMAIN inserted[i].row = {"a", "b"}
          /\ inserted[i].row["a"] # inserted[i].row["b"]
    /\ Len(result) = 2

\* ------------------------------------------------------------------ C5
\* C5: condition AND-semantics.  For select, update and delete called with a
\* condition of two or more keys, the rows returned, modified or removed are
\* exactly the rows that satisfy every equality; a row that fails one of them
\* is neither returned nor changed.  (A call whose statement raises changes
\* and returns nothing.)
C5_ConditionIsConjunction ==
    (op \in {"select", "update", "delete"} /\ Len(args.where) >= 2)
    => IF err # NoError THEN table = old /\ result = <<>>
       ELSE /\ table.schema = old.schema
            /\ op = "select" =>
                 LET hit == SelectSeq(old.rows, LAMBDA r : Satisfies(r, args.where))
                 IN  /\ table = old
                     /\ result = [i \in 1..Len(hit) |->
                                    [j \in 1..Len(args.columns) |-> hit[i][args.columns[j]]]]
            /\ op = "update" =>
                 table.rows = [i \in 1..Len(old.rows) |->
                                 IF Satisfies(old.rows[i], args.where)
                                 THEN Assigned(old.rows[i], args.data) ELSE old.rows[i]]
            /\ op = "delete" =>
                 table.rows = SelectSeq(old.rows, LAMBDA r : ~Satisfies(r, args.where))

\* A delete with a two-key condition removed a row that satisfies both
\* equalities and kept a row that satisfies only one of them.
C5_Witness ==
    /\ op = "delete"
    /\ Len(args.where) = 2
    /\ err = NoError
    /\ Len(old.rows) = 2
    /\ Len(table.rows) = 1
    /\ \E i \in 1..Len(args.where) : table.rows[1][args.where[i][1]] = args.where[i][2]

\* ------------------------------------------------------------------ C6
\* C6: update() or delete() called with an empty condition mapping never
\* mutates the whole table: the statement sent is not an unconditional
\* UPDATE/DELETE (it carries the WHERE keyword with nothing after it, which
\* the engine refuses), and every row is the same after the call as before.
C6_EmptyConditionChangesNothing ==
    (op \in {"update", "delete"} /\ args.where = <<>>)
    => /\ table = old
       /\ err # NoError
       /\ \A i \in 1..Len(executed) : executed[i].stmt.hasWhere

\* update with a non-empty data mapping and an empty condition on a table
\* that holds rows and has the columns of data.
C6_Witness ==
    /\ op = "update"
    /\ args.where = <<>>
    /\ args.data # <<>>
    /\ old.exists
    /\ KeySet(args.data) \subseteq ColsOf(old.schema)
    /\ Len(old.rows) = 2
    /\ \E i \in 1..2 : old.rows[i] # Assigned(old.rows[i], args.data)

\* ------------------------------------------------------------------ C7
\* C7: create_table called for a table that already exists with the same
\* column list raises nothing and leaves the schema and the rows identical.
C7_CreateTableIdempotent ==
    (op = "create_table" /\ old.exists /\ old.schema = args.columns)
    => /\ err = NoError
       /\ table = old

\* The second creation finds the table holding rows.
C7_Witness ==
    /\ op = "create_table"
    /\ old.exists
    /\ old.schema = args.columns
    /\ Len(old.rows) >= 1
    /\ err = NoError

\* ------------------------------------------------------------------ C8
\* C8: concurrent constructions for one absent database name.  The catalog
\* check and CREATE DATABASE are not atomic, so several may see the database
\* as absent; in every interleaving the database is created at most once and,
\* when all constructions have ended, exactly once; a construction whose
\* CREATE DATABASE fails with "duplicate database" has raised it, is aborted
\* and holds no target connection; a construction that completed raised
\* nothing and holds a target connection to the existing database.
C8_DatabaseCreatedOnce ==
    /\ nCreated <= 1
    /\ dbExists <=> nCreated = 1
    /\ \A p \in Procs :
         /\ raised[p] # NoError => raised[p] = "DuplicateDatabase"
         /\ raised[p] # NoError <=> pc[p] = "aborted"
         /\ pc[p] = "aborted" => ~conn[p]
         /\ conn[p] <=> pc[p] = "done"
         /\ pc[p] = "done" => dbExists /\ ~tmp_conn[p]
    /\ (\A p \in Procs : pc[p] \in {"done", "aborted"}) => nCreated = 1

\* Two constructions both saw the database absent; one created it and
\* completed, the other's CREATE DATABASE raised.
C8_Witness ==
    \E p, q \in Procs :
        /\ p # q
        /\ ~exists[p] /\ ~exists[q]
        /\ pc[p] = "done"
        /\ pc[q] = "aborted"
        /\ raised[q] = "DuplicateDatabase"
        /\ \A r \in Procs : pc[r] \in {"done", "aborted"}

\* ------------------------------------------------------------------ C9
\* C9: update binds the SET values first and the WHERE values second, each
\* in its own mapping's order; on every row matching the condition each
\* column of data receives its own new value and no other column changes,
\* also when a column is in both mappings (matched on the old value, set to
\* the new one); rows that do not match are unchanged.
C9_UpdateBindsSetThenWhere ==
    op = "update"
    => /\ Len(executed) = 1
       /\ executed[1].stmt.cols = Keys(args.data)
       /\ executed[1].stmt.whereCols = Keys(args.where)
       /\ executed[1].params = Values(args.data) \o Values(args.where)
       /\ err = NoError =>
            table.rows = [i \in 1..Len(old.rows) |->
                            IF Satisfies(old.rows[i], args.where)
                            THEN Assigned(old.rows[i], args.data) ELSE old.rows[i]]
       /\ err # NoError => table = old

\* A column is in both mappings with different values, and a row matched.
C9_Witness ==
    /\ op = "update"
    /\ err = NoError
    /\ \E i \in 1..Len(args.data), j \in 1..Len(args.where) :
          /\ args.data[i][1] = args.where[j][1]
          /\ args.data[i][2] # args.where[j][2]
    /\ Len(args.data) = 2
    /\ table.rows # old.rows

\* ------------------------------------------------------------------ C10
\* C10: a bulk insert is not atomic.  If executing row k raises an engine
\* error, rows 1..k-1 of the call are in the table (after the rows it held),
\* rows k..n are not, and the error is raised to the caller.
C10_BulkInsertKeepsRowsBeforeFailure ==
    (op = "insert" /\ err \in EngineErrors)
    => LET k == Len(executed)
           n == Len(old.rows)
           first == args.data.items[1].kv
       IN  /\ k >= 1
           /\ k <= Len(args.data.items)
           /\ Len(table.rows) = n + k - 1
           /\ SubSeq(table.rows, 1, n) = old.rows
           /\ \A i \in 1..(k - 1) :
                table.rows[n + i] =
                    [c \in ColsOf(table.schema) |->
                        IF c \in KeySet(first) THEN DictGet(args.data.items[i].kv, c)
                        ELSE NULL]

\* The second row of a call failed after the first was stored.
C10_Witness ==
    /\ op = "insert"
    /\ err = "UniqueViolation"
    /\ Len(executed) = 2
    /\ Len(args.data.items) = 2
    /\ Len(table.rows) = Len(old.rows) + 1

====
